---- MODULE Spec2Model ----
(***************************************************************************)
(* Model of the Title Protocol TEE worker (crates/tee): the worker state   *)
(* machine (/create-tree, /verify, /sign), the admission layer             *)
(* (security.rs: declared-size guard, chunked semaphore reservation,       *)
(* chunk read timeout, dynamic global timeout) and the analyzer loader.    *)
(*                                                                         *)
(* Every request is one tokio task on a multi-threaded runtime.  A step of *)
(* the model is the code of one handler between two points where another   *)
(* task can observe or change shared state: an .await, a lock acquisition  *)
(* or an atomic semaphore operation.                                       *)
(*                                                                         *)
(* Sizes are counted in KiB (TLC integers are 32 bit, the default ceiling  *)
(* of 2 GiB is 2^31 bytes): CHUNK_SIZE = 64 stands for 64 * 1024 bytes.    *)
(***************************************************************************)
EXTENDS Integers, Sequences, FiniteSets, TLC

----------------------------------------------------------------------------
(* Bounds of the model *)

\* number of requests in flight at once (request slots are reused)
NumReq == 2
\* the admission semaphore is seeded with SemChunks chunks (MAX_CONCURRENT_BYTES)
SemChunks == 2
\* largest number of items in one /sign request
MaxItems == 2

----------------------------------------------------------------------------
(* Program constants, in KiB *)

CHUNK_SIZE == 64
MAX_SIGNED_JSON_SIZE == 1024
DEFAULT_MAX_SINGLE_CONTENT_BYTES == 2097152
\* 1 MiB/s, in KiB/s
DEFAULT_MIN_UPLOAD_SPEED_BYTES == 1024
DEFAULT_BASE_PROCESSING_TIME_SEC == 30
DEFAULT_MAX_GLOBAL_TIMEOUT_SEC == 3600
\* the largest u64; the largest integer of the checker stands for 2^64 - 1
U64_MAX == 2147483647
\* capacity of the discard buffer for the body of a non-200 response (4096 bytes)
DISCARD_CAP == 4

CORE_PROCESSOR_ID == "core-c2pa"

Req == 1..NumReq
SemSeed == SemChunks * CHUNK_SIZE
\* a declared size above every ceiling a request can have
OverSize == DEFAULT_MAX_SINGLE_CONTENT_BYTES + CHUNK_SIZE

Min(a, b) == IF a < b THEN a ELSE b
Max(a, b) == IF a > b THEN a ELSE b

\* Option<T> is the set of at most one element
None == {}
Some(v) == {v}
Unwrap(o) == CHOOSE v \in o : TRUE
UnwrapOr(o, d) == IF o = None THEN d ELSE Unwrap(o)

----------------------------------------------------------------------------
(* State *)

VARIABLES
    proxy_addr,            \* "proxy" (an address of the vsock proxy) or "direct"
    gateway_pubkey,        \* Option: None or Some("gw")
    wasm_loader,           \* "FileLoader" or "HttpLoader"
    trusted_extension_ids, \* Option of a set of ids
    state,                 \* TeeState: "Inactive" or "Active"
    tree_address,          \* Option: None or Some("tree")
    sem,                   \* permits available in memory_semaphore
    req,                   \* per request slot: the handler's locals and position
    calc                   \* one call of a pure function: inputs, progress, result

vars == <<proxy_addr, gateway_pubkey, wasm_loader, trusted_extension_ids,
          state, tree_address, sem, req, calc>>

config == <<proxy_addr, gateway_pubkey, wasm_loader, trusted_extension_ids>>

\* no call of compute_dynamic_timeout under way
NoCalc == [rl |-> None, content_size |-> 0, timeout |-> None, panicked |-> FALSE]

\* a free request slot
IdleReq ==
    [kind |-> "none", pc |-> "idle", auth |-> "none",
     max_size_bytes |-> 0, declared_size |-> None, remaining |-> 0,
     chunk_buf |-> 0, buffer |-> 0, buffer_cap |-> 0, forgotten |-> 0,
     processor_ids |-> <<>>, idx |-> 0, results |-> <<>>, items |-> 0,
     status_ok |-> FALSE, fetched |-> FALSE, body_read |-> 0, stalled |-> FALSE,
     gto |-> FALSE, loaded |-> "none", att |-> None,
     sec_error |-> "none", result |-> "none", output |-> <<>>]

\* HTTP status of each TeeError (error.rs IntoResponse)
StatusOf(e) ==
    CASE e = "Ok" -> 200
      [] e = "BadRequest" -> 400
      [] e = "Internal" -> 500
      [] e \in {"InvalidState", "ServiceUnavailable"} -> 503
      [] e = "Conflict" -> 409
      [] e = "PayloadTooLarge" -> 413
      [] e = "Timeout" -> 408
      [] e = "BadGateway" -> 502
      [] e = "ProcessingFailed" -> 422
      [] e = "Forbidden" -> 403
      [] e = "Unauthorized" -> 401
      [] OTHER -> 0

\* The handler returns Err(e): its locals are dropped.  Permits that were
\* forget()-ed are not part of any guard, so dropping returns nothing.
Fail_partial(rec, secErr, teeErr) ==
    [rec EXCEPT !.pc = "done", !.sec_error = secErr, !.result = teeErr,
                   !.output = rec.results, !.results = <<>>, !.remaining = 0,
                   !.chunk_buf = 0, !.buffer = 0, !.buffer_cap = 0, !.idx = 0,
                   !.items = 0]
Fail(rec, secErr, teeErr) ==
    [rec EXCEPT !.pc = "done", !.sec_error = secErr, !.result = teeErr,
                   !.output = <<>>, !.results = <<>>, !.remaining = 0,
                   !.chunk_buf = 0, !.buffer = 0, !.buffer_cap = 0, !.idx = 0,
                   !.items = 0]

Init ==
    /\ proxy_addr \in {"proxy", "direct"}
    /\ gateway_pubkey \in {None, Some("gw")}
    /\ wasm_loader \in {"FileLoader", "HttpLoader"}
    /\ trusted_extension_ids \in {None, Some({"phash-v1"})}
    /\ state = "Inactive"
    /\ tree_address = None
    /\ sem = SemSeed
    /\ req = [r \in Req |-> IdleReq]
    /\ calc = NoCalc

----------------------------------------------------------------------------
(* /create-tree *)

\* What the relay sends: a direct body (no gateway_signature field), or a
\* GatewayAuthWrapper whose signature verifies, does not verify, or whose
\* shape does not parse.
AuthInputs == {"direct", "valid", "badsig", "malformed"}

\* the value handle_create_tree writes into state.state
Activate_toggle(current) == IF current = "Inactive" THEN "Active" ELSE "Inactive"
Activate(current) == "Active"

\* "*current != TeeState::Inactive" is false
IsInactive_always(current) == TRUE
IsInactive(current) == current = "Inactive"

\* The inactive-state check; its read guard is dropped at the end of the
\* block.  The handler takes the JSON body as it is: nothing looks at a
\* relay signature, whatever the body's shape (auth records the shape).
CreateTreeCheck(r) ==
    /\ req[r].pc = "idle"
    /\ \E wrapper \in AuthInputs :
         LET rec == [req[r] EXCEPT !.kind = "create_tree", !.auth = wrapper] IN
         req' = [req EXCEPT ![r] =
            IF ~IsInactive(state) THEN Fail(rec, "none", "Conflict")
            ELSE [rec EXCEPT !.pc = "ct_build"]]
    /\ UNCHANGED <<calc, config, state, tree_address, sem>>

\* Parse the body as CreateTreeRequest, decode the blockhash, take the keys,
\* build, sign and serialize the transaction: every failure returns before
\* anything is stored.  A GatewayAuthWrapper has none of the fields of a
\* CreateTreeRequest at its top level, so only a direct body parses.
\* state.tree_address when the build step returns, with or without an
\* error: the step has no write to it
TreeAddressAfterBuild_stored(current, outcome) == Some("tree")
TreeAddressAfterBuild(current, outcome) == current

CreateTreeBuild(r) ==
    /\ req[r].pc = "ct_build"
    /\ \E outcome \in {"ok", "bad_request", "bad_blockhash", "internal"} :
         /\ req[r].auth # "direct" => outcome = "bad_request"
         /\ req' = [req EXCEPT ![r] =
              CASE outcome = "ok" -> [req[r] EXCEPT !.pc = "ct_store"]
                [] outcome \in {"bad_request", "bad_blockhash"} ->
                      Fail(req[r], "none", "BadRequest")
                [] OTHER -> Fail(req[r], "none", "Internal")]
         /\ tree_address' = TreeAddressAfterBuild(tree_address, outcome)
    /\ UNCHANGED <<calc, config, state, sem>>

\* the value handle_create_tree writes into state.tree_address
StoredTreeAddress_absent(tree_pubkey_bytes) == None
StoredTreeAddress(tree_pubkey_bytes) == Some(tree_pubkey_bytes)

\* *tree_addr = Some(tree_pubkey_bytes)
CreateTreeStore(r) ==
    /\ req[r].pc = "ct_store"
    /\ tree_address' = StoredTreeAddress("tree")
    /\ req' = [req EXCEPT ![r].pc = "ct_activate"]
    /\ UNCHANGED <<calc, config, state, sem>>

\* *current = TeeState::Active, then the response is built
CreateTreeActivate(r) ==
    /\ req[r].pc = "ct_activate"
    /\ state' = Activate(state)
    /\ req' = [req EXCEPT ![r] =
            [req[r] EXCEPT !.pc = "done", !.result = "Ok",
                           !.output = <<"signed_tx">>]]
    /\ UNCHANGED <<calc, config, tree_address, sem>>

----------------------------------------------------------------------------
(* Shared pieces of /verify and /sign *)

\* the active-state check of handle_verify and handle_sign
IsActive_skipped(current) == TRUE
IsActive(current) == current = "Active"

\* verify_gateway_auth: the status of its Err, 200 for Ok
verify_gateway_auth_noverify(pubkey, wrapper) ==
    IF wrapper = "malformed" THEN 400 ELSE 200
verify_gateway_auth(pubkey, wrapper) ==
    IF wrapper # "direct"
    THEN IF wrapper = "malformed" THEN 400
         ELSE IF pubkey # None /\ wrapper = "badsig" THEN 403
         ELSE 200
    ELSE IF pubkey # None THEN 401 ELSE 200

\* ResourceLimits as the relay sends it: every field is optional
ResourceLimits(single, speed, base, cap) ==
    [max_single_content_bytes |-> single, min_upload_speed_bytes |-> speed,
     base_processing_time_sec |-> base, max_global_timeout_sec |-> cap]

\* resource_limits of the wrapper (a direct body carries none)
LimitInputs(wrapper) ==
    IF wrapper = "direct" THEN {None}
    ELSE {None, Some(ResourceLimits(None, None, None, None)),
          Some(ResourceLimits(Some(CHUNK_SIZE), None, None, None))}

\* every field is the relay's value if it sent one, the default otherwise
resolve_limits(rl) ==
    IF rl = None
    THEN [max_single_content_bytes |-> DEFAULT_MAX_SINGLE_CONTENT_BYTES,
          min_upload_speed_bytes |-> DEFAULT_MIN_UPLOAD_SPEED_BYTES,
          base_processing_time_sec |-> DEFAULT_BASE_PROCESSING_TIME_SEC,
          max_global_timeout_sec |-> DEFAULT_MAX_GLOBAL_TIMEOUT_SEC]
    ELSE [max_single_content_bytes |->
            UnwrapOr(Unwrap(rl).max_single_content_bytes,
                     DEFAULT_MAX_SINGLE_CONTENT_BYTES),
          min_upload_speed_bytes |->
            UnwrapOr(Unwrap(rl).min_upload_speed_bytes,
                     DEFAULT_MIN_UPLOAD_SPEED_BYTES),
          base_processing_time_sec |->
            UnwrapOr(Unwrap(rl).base_processing_time_sec,
                     DEFAULT_BASE_PROCESSING_TIME_SEC),
          max_global_timeout_sec |->
            UnwrapOr(Unwrap(rl).max_global_timeout_sec,
                     DEFAULT_MAX_GLOBAL_TIMEOUT_SEC)]

\* the map_err of both handlers over SecurityError
MapSecurityError_conflated(e) ==
    CASE e = "PayloadTooLarge" -> "PayloadTooLarge"
      [] e = "ChunkReadTimeout" -> "Timeout"
      [] OTHER -> "BadGateway"
MapSecurityError(e) ==
    CASE e = "PayloadTooLarge" -> "PayloadTooLarge"
      [] e = "MemoryLimitExceeded" -> "ServiceUnavailable"
      [] e = "ChunkReadTimeout" -> "Timeout"
      [] e = "ProxyError" -> "BadGateway"
      [] OTHER -> "BadGateway"

\* proxy_get_secured returns Err(e) and the handler maps it
FetchFail(rec, e) == Fail(rec, e, MapSecurityError(e))

\* Semaphore::try_acquire_many(n) succeeds
TryAcquireMany_unchecked(available, n) == TRUE
TryAcquireMany(available, n) == available >= n

\* "declared_size > max_size_bytes"
ExceedsLimit_off(size, limit) == FALSE
ExceedsLimit(size, limit) == size > limit

\* body lengths a response declares or delivers
BodySizes == {0, CHUNK_SIZE, SemSeed, OverSize}

\* the function through which a request is fetching right now, if it is
FetchVia(rec) ==
    CASE rec.pc \in {"fetch_read", "fetch_acquire", "fetch_release"} ->
            "proxy_get_secured"
      [] rec.pc \in {"direct_body", "direct_acquire"} -> "proxy_get_secured_direct"
      [] rec.pc = "v_ext_load" -> "proxy_get"
      [] OTHER -> "none"
\* where the handler continues when the fetch returns Ok
AfterFetch(rec) == IF rec.kind = "verify" THEN "v_decrypt" ELSE "s_item"

----------------------------------------------------------------------------
(* proxy_get_secured, proxy protocol *)

\* connect, send the GET, read the status and the declared length
FetchConnect(r) ==
    /\ req[r].pc = "fetch_connect"
    /\ proxy_addr # "direct"
    /\ LET rec == [req[r] EXCEPT !.fetched = TRUE, !.auth = "none"] IN
       \E outcome \in {"io_error", "status_err", "ok"}, declared \in BodySizes :
         \/ /\ outcome = "io_error"
            /\ declared = 0
            /\ req' = [req EXCEPT ![r] = FetchFail(rec, "Io")]
         \/ /\ outcome = "status_err"
            \* the body of the error response is read once into a 4096 byte buffer
            /\ \E n \in {0, Min(declared, DISCARD_CAP)} :
                 req' = [req EXCEPT ![r] = FetchFail(
                    [rec EXCEPT !.declared_size = Some(declared),
                                !.body_read = n], "ProxyError")]
         \/ /\ outcome = "ok"
            /\ LET got == [rec EXCEPT !.declared_size = Some(declared),
                                      !.status_ok = TRUE] IN
               req' = [req EXCEPT ![r] =
                 IF ExceedsLimit(declared, rec.max_size_bytes)
                 THEN FetchFail(got, "PayloadTooLarge")
                 ELSE IF declared = 0
                 THEN [got EXCEPT !.pc = AfterFetch(rec)]
                 ELSE [got EXCEPT !.pc = "fetch_read", !.buffer_cap = declared,
                                  !.remaining = declared]]
    /\ UNCHANGED <<calc, config, state, tree_address, sem>>

\* timeout(chunk_timeout, stream.read_exact(&mut chunk_buf))
FetchRead(r) ==
    /\ req[r].pc = "fetch_read"
    /\ LET to_read == Min(req[r].remaining, CHUNK_SIZE) IN
       \E outcome \in {"ok", "stall", "io_error"} :
         req' = [req EXCEPT ![r] =
            CASE outcome = "ok" ->
                    [req[r] EXCEPT !.pc = "fetch_acquire", !.chunk_buf = to_read,
                                   !.body_read = @ + to_read]
              [] outcome = "stall" ->
                    FetchFail([req[r] EXCEPT !.stalled = TRUE], "ChunkReadTimeout")
              [] OTHER -> FetchFail(req[r], "Io")]
    /\ UNCHANGED <<calc, config, state, tree_address, sem>>

\* try_acquire_many(to_read), permit.forget(), buffer.extend_from_slice
FetchAcquire(r) ==
    /\ req[r].pc = "fetch_acquire"
    /\ LET n == req[r].chunk_buf IN
       IF TryAcquireMany(sem, n)
       THEN /\ sem' = sem - n
            /\ req' = [req EXCEPT ![r] =
                 [req[r] EXCEPT !.forgotten = @ + n, !.buffer = @ + n,
                                !.remaining = @ - n, !.chunk_buf = 0,
                                !.pc = IF req[r].remaining - n = 0
                                       THEN "fetch_release" ELSE "fetch_read"]]
       ELSE /\ sem' = sem
            /\ req' = [req EXCEPT ![r] = FetchFail(req[r], "MemoryLimitExceeded")]
    /\ UNCHANGED <<calc, config, state, tree_address>>

\* Semaphore::add_permits
add_permits_twice(available, n) == available + n + n
add_permits(available, n) == available + n

\* semaphore.add_permits(total_reserved); Ok(ProxyResponse)
FetchRelease(r) ==
    /\ req[r].pc = "fetch_release"
    /\ sem' = add_permits(sem, req[r].forgotten)
    /\ req' = [req EXCEPT ![r] =
            [req[r] EXCEPT !.forgotten = 0, !.pc = AfterFetch(req[r])]]
    /\ UNCHANGED <<calc, config, state, tree_address>>

----------------------------------------------------------------------------
(* proxy_get_secured_direct *)

\* client.get(url).send(): the status and the Content-Length header, if any
DirectSend(r) ==
    /\ req[r].pc = "fetch_connect"
    /\ proxy_addr = "direct"
    /\ LET rec == [req[r] EXCEPT !.fetched = TRUE, !.auth = "none"] IN
       \E outcome \in {"io_error", "status_err", "ok"},
          content_length \in {None} \cup {Some(n) : n \in BodySizes} :
         \/ /\ outcome = "io_error"
            /\ content_length = None
            /\ req' = [req EXCEPT ![r] = FetchFail(rec, "Io")]
         \/ /\ outcome = "status_err"
            /\ req' = [req EXCEPT ![r] = FetchFail(
                    [rec EXCEPT !.declared_size = content_length], "ProxyError")]
         \/ /\ outcome = "ok"
            /\ LET got == [rec EXCEPT !.declared_size = content_length,
                                      !.status_ok = TRUE] IN
               req' = [req EXCEPT ![r] =
                 IF content_length # None
                    /\ ExceedsLimit(Unwrap(content_length), rec.max_size_bytes)
                 THEN FetchFail(got, "PayloadTooLarge")
                 ELSE [got EXCEPT !.pc = "direct_body"]]
    /\ UNCHANGED <<calc, config, state, tree_address, sem>>

\* resp.bytes().await under the client's 120 s total timeout, then the
\* final size check
DirectBody(r) ==
    /\ req[r].pc = "direct_body"
    /\ \E outcome \in {"ok", "stall", "io_error"}, len \in BodySizes :
         /\ req[r].declared_size # None => len = Unwrap(req[r].declared_size)
         /\ \/ /\ outcome = "ok"
               /\ req' = [req EXCEPT ![r] =
                    LET got == [req[r] EXCEPT !.body_read = len] IN
                    IF ExceedsLimit(len, req[r].max_size_bytes)
                    THEN FetchFail(got, "PayloadTooLarge")
                    ELSE [got EXCEPT !.pc = "direct_acquire", !.buffer = len,
                                     !.buffer_cap = len]]
            \* the first chunk arrives, then nothing: the total timeout ends it
            \/ /\ outcome = "stall"
               /\ len > CHUNK_SIZE
               /\ req' = [req EXCEPT ![r] = FetchFail(
                    [req[r] EXCEPT !.body_read = CHUNK_SIZE, !.stalled = TRUE],
                    "Io")]
            \/ /\ outcome = "io_error"
               /\ req' = [req EXCEPT ![r] = FetchFail(req[r], "Io")]
    /\ UNCHANGED <<calc, config, state, tree_address, sem>>

\* try_acquire_many(body.len()), permit.forget(); Ok(ProxyResponse)
DirectAcquire(r) ==
    /\ req[r].pc = "direct_acquire"
    /\ LET n == req[r].buffer IN
       IF n > 0
       THEN IF TryAcquireMany(sem, n)
            THEN /\ sem' = sem - n
                 /\ req' = [req EXCEPT ![r] =
                      [req[r] EXCEPT !.forgotten = @ + n,
                                     !.pc = AfterFetch(req[r])]]
            ELSE /\ sem' = sem
                 /\ req' = [req EXCEPT ![r] =
                      FetchFail(req[r], "MemoryLimitExceeded")]
       ELSE /\ sem' = sem
            /\ req' = [req EXCEPT ![r].pc = AfterFetch(req[r])]
    /\ UNCHANGED <<calc, config, state, tree_address>>

----------------------------------------------------------------------------
(* /verify *)

ProcLists ==
    {<<CORE_PROCESSOR_ID>>, <<CORE_PROCESSOR_ID, "phash-v1">>,
     <<CORE_PROCESSOR_ID, "evil">>, <<"phash-v1", CORE_PROCESSOR_ID>>}

\* state check, relay authentication, parse of VerifyRequest, resolve_limits
VerifyBegin(r) ==
    /\ req[r].pc = "idle"
    /\ \E wrapper \in AuthInputs, body_ok \in BOOLEAN :
       \E rl \in LimitInputs(wrapper) :
         LET rec == [req[r] EXCEPT !.kind = "verify", !.auth = wrapper] IN
         req' = [req EXCEPT ![r] =
            IF ~IsActive(state) THEN Fail(rec, "none", "InvalidState")
            ELSE IF verify_gateway_auth(gateway_pubkey, wrapper) # 200
            THEN Fail(rec, "none", "Unauthorized")
            ELSE IF ~body_ok THEN Fail(rec, "none", "BadRequest")
            ELSE [rec EXCEPT !.pc = "fetch_connect",
                    !.max_size_bytes = resolve_limits(rl).max_single_content_bytes]]
    /\ UNCHANGED <<calc, config, state, tree_address, sem>>

\* parse the envelope, ECDH + HKDF + AES-GCM open, parse ClientPayload, decode
\* the content and re-check its size.  The content is Base64 inside the
\* ciphertext inside the envelope, so it is shorter than the fetched body.
VerifyDecrypt(r) ==
    /\ req[r].pc = "v_decrypt"
    /\ \E outcome \in {"ok", "bad_envelope", "bad_request"},
          content_len \in {1, CHUNK_SIZE}, pids \in ProcLists :
         /\ req[r].buffer = 0 => outcome = "bad_envelope"
         /\ outcome = "ok" => content_len < req[r].buffer
         /\ outcome # "ok" => content_len = 1
         /\ req' = [req EXCEPT ![r] =
              CASE outcome = "bad_envelope" -> Fail(req[r], "none", "BadGateway")
                [] outcome = "bad_request" -> Fail(req[r], "none", "BadRequest")
                [] OTHER ->
                    IF ExceedsLimit(content_len, req[r].max_size_bytes)
                    THEN Fail(req[r], "none", "PayloadTooLarge")
                    ELSE [req[r] EXCEPT !.pc = "v_process", !.idx = 1,
                                        !.processor_ids = pids,
                                        !.results = <<>>]]
    /\ UNCHANGED <<calc, config, state, tree_address, sem>>

\* one processor done: its result is pushed and the loop goes on
Pushed(rec, pid) ==
    [rec EXCEPT !.results = Append(@, pid), !.idx = @ + 1,
                !.pc = IF rec.idx + 1 > Len(rec.processor_ids)
                       THEN "v_seal" ELSE "v_process"]

\* "if let Some(ref trusted) = ... { if !trusted.contains(processor_id) ..."
\* does not reject the id
IsTrusted_any(trusted, pid) == TRUE
IsTrusted(trusted, pid) == trusted = None \/ pid \in Unwrap(trusted)

\* One iteration of the processor loop inside tokio::time::timeout, up to
\* its first await.  process_core and the FileLoader never await; the
\* HttpLoader awaits proxy_get.  loaded records the id that process_extension
\* passed to loader.load.
VerifyProcess(r) ==
    /\ req[r].pc = "v_process"
    /\ LET pid == req[r].processor_ids[req[r].idx] IN
       \E outcome \in {"ok", "fail"} :
         IF pid = CORE_PROCESSOR_ID
         THEN /\ req' = [req EXCEPT ![r] =
                    IF outcome = "ok" THEN Pushed(req[r], pid)
                    ELSE Fail(req[r], "none", "ProcessingFailed")]
         ELSE IF ~IsTrusted(trusted_extension_ids, pid)
         THEN /\ req' = [req EXCEPT ![r] = Fail(req[r], "none", "Forbidden")]
         ELSE IF wasm_loader = "FileLoader"
         THEN /\ req' = [req EXCEPT ![r] =
                    IF outcome = "ok"
                    THEN Pushed([req[r] EXCEPT !.loaded = pid], pid)
                    ELSE Fail([req[r] EXCEPT !.loaded = pid],
                              "none", "ProcessingFailed")]
         ELSE /\ outcome = "ok"
              /\ req' = [req EXCEPT ![r].pc = "v_ext_load", ![r].loaded = pid]
    /\ UNCHANGED <<calc, config, state, tree_address, sem>>

\* HttpLoader::load returns; the module runs and its result is signed
VerifyExtLoaded(r) ==
    /\ req[r].pc = "v_ext_load"
    /\ \E outcome \in {"ok", "fail"} :
         req' = [req EXCEPT ![r] =
            IF outcome = "ok"
            THEN Pushed(req[r], req[r].processor_ids[req[r].idx])
            ELSE Fail(req[r], "none", "ProcessingFailed")]
    /\ UNCHANGED <<calc, config, state, tree_address, sem>>

\* The deadline of tokio::time::timeout passes while the block is pending
\* at an await: the block and its results are dropped, Err(Timeout).
GlobalTimeout(r) ==
    /\ req[r].pc = "v_ext_load"
    /\ req' = [req EXCEPT ![r] =
            Fail([req[r] EXCEPT !.gto = TRUE], "none", "Timeout")]
    /\ UNCHANGED <<calc, config, state, tree_address, sem>>

\* serialize VerifyResponse and seal it
VerifySeal(r) ==
    /\ req[r].pc = "v_seal"
    /\ \E outcome \in {"ok", "internal"} :
         req' = [req EXCEPT ![r] =
            IF outcome = "ok"
            THEN [req[r] EXCEPT !.pc = "done", !.result = "Ok",
                                !.output = req[r].results, !.results = <<>>,
                                !.buffer = 0, !.buffer_cap = 0, !.idx = 0]
            ELSE Fail(req[r], "none", "Internal")]
    /\ UNCHANGED <<calc, config, state, tree_address, sem>>

----------------------------------------------------------------------------
(* /sign *)

\* state check, relay authentication, parse of SignRequest, blockhash, keys
SignBegin(r) ==
    /\ req[r].pc = "idle"
    /\ \E wrapper \in AuthInputs, outcome \in {"ok", "bad_request", "internal"},
          n \in 0..MaxItems :
         LET rec == [req[r] EXCEPT !.kind = "sign", !.auth = wrapper] IN
         req' = [req EXCEPT ![r] =
            IF ~IsActive(state) THEN Fail(rec, "none", "InvalidState")
            ELSE IF verify_gateway_auth(gateway_pubkey, wrapper) # 200
            THEN Fail(rec, "none", "Unauthorized")
            ELSE IF outcome = "bad_request" THEN Fail(rec, "none", "BadRequest")
            ELSE IF outcome = "internal" THEN Fail(rec, "none", "Internal")
            ELSE [rec EXCEPT !.pc = "s_tree", !.items = n,
                             !.max_size_bytes = MAX_SIGNED_JSON_SIZE]]
    /\ UNCHANGED <<calc, config, state, tree_address, sem>>

\* state.tree_address.read().await
SignReadTree(r) ==
    /\ req[r].pc = "s_tree"
    /\ req' = [req EXCEPT ![r] =
            IF tree_address = None THEN Fail(req[r], "none", "Internal")
            ELSE IF req[r].items = 0
            THEN [req[r] EXCEPT !.pc = "done", !.result = "Ok", !.output = <<>>]
            ELSE [req[r] EXCEPT !.pc = "fetch_connect", !.auth = "none"]]
    /\ UNCHANGED <<calc, config, state, tree_address, sem>>

\* the worker's signing key (generated at start-up, fixed for the process)
\* and the key of an earlier run of the worker
SigningKey == "tee_current"
AttestationInputs ==
    {[key |-> "tee_current", intact |-> TRUE],
     [key |-> "tee_current", intact |-> FALSE],
     [key |-> "tee_previous", intact |-> TRUE]}

\* verifying_key.verify_strict(&sign_bytes, &ed_signature) over the
\* re-serialized {payload, attributes}: the signature was made with this key
\* and payload and attributes are as signed
verify_strict_any(verifying_key, a) == TRUE
verify_strict(verifying_key, a) == a.key = verifying_key /\ a.intact

\* parse the fetched signed_json (att records it), verify tee_signature
\* under the current signing key, build and partially sign the mint
\* transaction
SignItem(r) ==
    /\ req[r].pc = "s_item"
    /\ \E outcome \in {"ok", "bad_json", "bad_request", "internal"},
          a \in AttestationInputs :
         /\ req[r].buffer = 0 => outcome = "bad_json"
         /\ LET rec == [req[r] EXCEPT !.att =
                            IF outcome = "bad_json" THEN None ELSE Some(a)] IN
            req' = [req EXCEPT ![r] =
              CASE outcome = "bad_json" -> Fail(rec, "none", "BadRequest")
                [] ~verify_strict(SigningKey, a) -> Fail(rec, "none", "Forbidden")
                [] outcome = "bad_request" -> Fail(rec, "none", "BadRequest")
                [] outcome = "internal" -> Fail(rec, "none", "Internal")
                [] OTHER ->
                    IF rec.items = 1
                    THEN [rec EXCEPT !.pc = "done", !.result = "Ok",
                            !.output = Append(rec.results, "tx"),
                            !.results = <<>>, !.items = 0, !.buffer = 0,
                            !.buffer_cap = 0]
                    ELSE [rec EXCEPT !.pc = "fetch_connect",
                            !.results = Append(@, "tx"), !.items = @ - 1,
                            !.buffer = 0, !.buffer_cap = 0,
                            !.declared_size = None, !.status_ok = FALSE,
                            !.body_read = 0]]
    /\ UNCHANGED <<calc, config, state, tree_address, sem>>

----------------------------------------------------------------------------
(* The response is sent and the task ends; the slot serves the next request *)

Respond(r) ==
    /\ req[r].pc = "done"
    /\ req' = [req EXCEPT ![r] = IdleReq]
    /\ UNCHANGED <<calc, config, state, tree_address, sem>>

----------------------------------------------------------------------------

Next ==
    \E r \in Req :
        \/ CreateTreeCheck(r)
        \/ CreateTreeBuild(r)
        \/ CreateTreeStore(r)
        \/ CreateTreeActivate(r)
        \/ VerifyBegin(r)
        \/ FetchConnect(r)
        \/ FetchRead(r)
        \/ FetchAcquire(r)
        \/ FetchRelease(r)
        \/ DirectSend(r)
        \/ DirectBody(r)
        \/ DirectAcquire(r)
        \/ VerifyDecrypt(r)
        \/ VerifyProcess(r)
        \/ VerifyExtLoaded(r)
        \/ GlobalTimeout(r)
        \/ VerifySeal(r)
        \/ SignBegin(r)
        \/ SignReadTree(r)
        \/ SignItem(r)
        \/ Respond(r)

Spec == Init /\ [][Next]_vars

----------------------------------------------------------------------------
(* compute_dynamic_timeout, applied to arbitrary limits and content sizes *)

\* u64 "+" overflows: it wraps in a release build
WrappingAdd(a, b) == IF a > U64_MAX - b THEN a - (U64_MAX - b) - 1 ELSE a + b
\* ... and panics in a build with overflow checks
AddOverflows(a, b) == a > U64_MAX - b

compute_dynamic_timeout(limits, content_size) ==
    LET transfer_time_sec == content_size \div Max(limits.min_upload_speed_bytes, 1)
        computed == WrappingAdd(limits.base_processing_time_sec, transfer_time_sec)
        capped == Min(computed, limits.max_global_timeout_sec)
    IN  capped

\* limits a relay can send and content sizes a verify can decode
SpeedInputs == {None, Some(0), Some(CHUNK_SIZE)}
BaseInputs == {None, Some(0), Some(100), Some(U64_MAX)}
CapInputs == {None, Some(0), Some(50), Some(U64_MAX)}
ContentSizes == {0, CHUNK_SIZE, DEFAULT_MAX_SINGLE_CONTENT_BYTES}

InitTimeout ==
    /\ proxy_addr = "proxy"
    /\ gateway_pubkey = None
    /\ wasm_loader = "FileLoader"
    /\ trusted_extension_ids = None
    /\ state = "Active"
    /\ tree_address = Some("tree")
    /\ sem = SemSeed
    /\ req = [r \in Req |-> IdleReq]
    /\ \E speed \in SpeedInputs, base \in BaseInputs, cap \in CapInputs,
          size \in ContentSizes, sent \in BOOLEAN :
         calc = [rl |-> IF sent THEN Some(ResourceLimits(None, speed, base, cap))
                        ELSE None,
                 content_size |-> size, timeout |-> None, panicked |-> FALSE]

\* handle_verify: compute_dynamic_timeout(&limits, content_bytes.len())
ComputeTimeout ==
    /\ calc.timeout = None /\ ~calc.panicked
    /\ calc' = [calc EXCEPT !.timeout =
            Some(compute_dynamic_timeout(resolve_limits(calc.rl), calc.content_size))]
    /\ UNCHANGED <<config, state, tree_address, sem, req>>

\* the same call in a build with overflow checks, when the sum overflows
ComputeTimeoutPanics ==
    /\ calc.timeout = None /\ ~calc.panicked
    /\ LET limits == resolve_limits(calc.rl) IN
       AddOverflows(limits.base_processing_time_sec,
                    calc.content_size \div Max(limits.min_upload_speed_bytes, 1))
    /\ calc' = [calc EXCEPT !.panicked = TRUE]
    /\ UNCHANGED <<config, state, tree_address, sem, req>>

NextTimeout == ComputeTimeout \/ ComputeTimeoutPanics

SpecTimeout == InitTimeout /\ [][NextTimeout]_vars

-----------------------------------------------------------------------------
(* Provenance graph: crates/core build_provenance_graph *)

\* ingredient recursion cap
MAX_INGREDIENT_DEPTH == 32

\* the part of the worker that a call of a pure function leaves alone
WorkerAtRest ==
    /\ proxy_addr = "proxy"
    /\ gateway_pubkey = None
    /\ wasm_loader = "FileLoader"
    /\ trusted_extension_ids = None
    /\ state = "Active"
    /\ tree_address = Some("tree")
    /\ sem = SemSeed
    /\ req = [r \in Req |-> IdleReq]

SeqsUpTo(S, n) == UNION {[1..k -> S] : k \in 0..n}

\* SHA-256 of the signature bytes, then "0x" + hex: one id per signature
content_hash_from_manifest_signature(manifest_signature) ==
    <<"sha256", manifest_signature>>
format_content_hash(hash) == <<"0x", hash>>

GraphNode(id, node_type) == [id |-> id, node_type |-> node_type]
GraphLink(source, target, role) ==
    [source |-> source, target |-> target, role |-> role]

ingredient_role(ingredient) == UnwrapOr(ingredient.format, "unknown")

\* What c2pa::Reader and the JUMBF lookup give for one container:
\*   active_label         Reader::active_label()
\*   manifests[l]         the ingredients of Reader::get_manifest(l), for the
\*                        labels the store holds
\*   signature[l]         extract_signature_from_jumbf(jumbf_data, l): the
\*                        signature bytes, or None when the lookup fails
get_manifest(doc, label) ==
    IF label \in DOMAIN doc.manifests THEN Some(doc.manifests[label]) ELSE None

DepthExceeded_off(depth) == depth > MAX_INGREDIENT_DEPTH + 1

\* if depth > MAX_INGREDIENT_DEPTH
DepthExceeded(depth) == depth > MAX_INGREDIENT_DEPTH

PushNode_never(nodes, id) == nodes

\* if !nodes.iter().any(|n| n.id == hash_str) { nodes.push(..) }
PushNode(nodes, id) ==
    IF \E i \in 1..Len(nodes) : nodes[i].id = id
    THEN nodes
    ELSE Append(nodes, GraphNode(id, "ingredient"))

SizeExceeded_off(total, max_graph_size) == FALSE

\* if total > max_graph_size
SizeExceeded(total, max_graph_size) == total > max_graph_size

\* Containers: chains of single-ingredient manifests up to MaxChain deep,
\* a diamond, and every store of NumLabels manifests with up to
\* MaxIngredients ingredients each, which may name any manifest of the store
\* (itself and its ancestors included), a manifest the store lacks, or none.
MaxChain == 34
NumLabels == 2
MaxIngredients == 2

Ingredient(active_manifest, format) ==
    [active_manifest |-> active_manifest, format |-> format]

Chain(n) ==
    [active_label |-> Some(0),
     manifests |-> [k \in 0..n |->
         IF k < n THEN <<Ingredient(Some(k + 1), Some("image/jpeg"))>> ELSE <<>>],
     signature |-> [k \in 0..n |-> Some(k)]]

\* two ingredients made from the same third one
Diamond ==
    [active_label |-> Some(1),
     manifests |-> [k \in 1..4 |->
         CASE k = 1 -> <<Ingredient(Some(2), Some("image/jpeg")),
                         Ingredient(Some(3), Some("image/png"))>>
           [] k \in {2, 3} -> <<Ingredient(Some(4), None)>>
           [] OTHER -> <<>>],
     signature |-> [k \in 1..4 |-> Some(k)]]

IngredientInputs ==
    {Ingredient(None, None)}
    \cup {Ingredient(Some(l), Some("image/jpeg")) : l \in 1..(NumLabels + 1)}

\* signature bytes per label: all distinct; one lookup failing; the
\* second manifest carrying the same signature bytes as the first
SignatureInputs ==
    {[l \in 1..(NumLabels + 1) |-> Some(l)],
     [l \in 1..(NumLabels + 1) |-> IF l = NumLabels THEN None ELSE Some(l)],
     [l \in 1..(NumLabels + 1) |-> IF l = 2 THEN Some(1) ELSE Some(l)]}

Stores ==
    {[active_label |-> a, manifests |-> m, signature |-> s] :
        a \in {Some(1)},
        m \in [1..NumLabels -> SeqsUpTo(IngredientInputs, MaxIngredients)],
        s \in SignatureInputs}

GraphDocs ==
    {Chain(n) : n \in 0..MaxChain} \cup {Diamond} \cup Stores
    \cup {[active_label |-> None, manifests |-> <<>>, signature |-> <<>>],
          [active_label |-> Some(1), manifests |-> [k \in {1} |-> <<>>],
           signature |-> [k \in {1} |-> None]]}

MaxGraphSizes == {0, 3, 100}

\* The label, if any, whose scan in extract_signature_from_jumbf meets a box
\* whose start + size passes 2^64 (jumbf.rs 181-186) before it finds the
\* label: the scan then panics (overflow checks) or goes back in the store
\* and round again (no overflow checks), and does not return.
WrapInputs == {None} \cup {Some(l) : l \in 1..NumLabels}
ScanReturns(c, label) == c.wraps # Some(label)
ScanOutcomes == {"panic", "loop"}

\* one call of build_provenance_graph: the container, the cap, the nodes and
\* links built so far, the calls of process_ingredients in progress (the
\* manifest each iterates, its parent id, the next ingredient, its depth)
\* and the value returned
InitGraph ==
    /\ WorkerAtRest
    /\ \E doc \in GraphDocs, max_graph_size \in MaxGraphSizes,
          wraps \in WrapInputs :
         calc = [doc |-> doc, max_graph_size |-> max_graph_size,
                 wraps |-> wraps, nodes |-> <<>>, links |-> <<>>,
                 stack |-> <<>>, pc |-> "start", result |-> "none"]

Frame(label, parent_hash_str, depth) ==
    [label |-> label, parent_hash_str |-> parent_hash_str, i |-> 1,
     depth |-> depth]

\* build_provenance_graph up to the first call of process_ingredients
BuildProvenanceGraph ==
    /\ calc.pc = "start"
    /\ LET doc == calc.doc IN
       IF doc.active_label = None
          \/ get_manifest(doc, Unwrap(doc.active_label)) = None
       THEN calc' = [calc EXCEPT !.pc = "done", !.result = "GraphBuildFailed"]
       ELSE IF ~ScanReturns(calc, Unwrap(doc.active_label))
       THEN \E outcome \in ScanOutcomes : calc' = [calc EXCEPT !.pc = outcome]
       ELSE IF doc.signature[Unwrap(doc.active_label)] = None
       THEN calc' = [calc EXCEPT !.pc = "done",
                                 !.result = "ContentHashExtractionFailed"]
       ELSE LET root_sig == Unwrap(doc.signature[Unwrap(doc.active_label)])
                root_hash_str == format_content_hash(
                                   content_hash_from_manifest_signature(root_sig))
            IN calc' = [calc EXCEPT
                  !.pc = "walk",
                  !.nodes = <<GraphNode(root_hash_str, "final")>>,
                  !.stack = <<Frame(Unwrap(doc.active_label), root_hash_str, 0)>>]
    /\ UNCHANGED <<config, state, tree_address, sem, req>>

\* process_ingredients: one turn of `for ingredient in manifest.ingredients()`
\* in the innermost call, up to the depth check of the call it makes
ProcessIngredient ==
    /\ calc.pc = "walk" /\ calc.stack # <<>>
    /\ LET doc == calc.doc
           top == Len(calc.stack)
           f == calc.stack[top]
           ingredients == doc.manifests[f.label] IN
       /\ f.i <= Len(ingredients)
       /\ LET ingredient == ingredients[f.i]
              role == ingredient_role(ingredient)
              next == [calc.stack EXCEPT ![top].i = f.i + 1] IN
          IF ingredient.active_manifest = None
          THEN calc' = [calc EXCEPT !.stack = next]
          ELSE
            LET ingredient_label == Unwrap(ingredient.active_manifest)
                sig == doc.signature[ingredient_label] IN
            IF ~ScanReturns(calc, ingredient_label)
            THEN \E outcome \in ScanOutcomes : calc' = [calc EXCEPT !.pc = outcome]
            ELSE IF sig = None
            THEN calc' = [calc EXCEPT !.stack = next]
            ELSE
              LET hash_str == format_content_hash(
                                content_hash_from_manifest_signature(Unwrap(sig)))
                  nodes == PushNode(calc.nodes, hash_str)
                  links == Append(calc.links,
                                  GraphLink(hash_str, f.parent_hash_str, role))
              IN
              IF get_manifest(doc, ingredient_label) = None
              THEN calc' = [calc EXCEPT !.nodes = nodes, !.links = links,
                                       !.stack = next]
              ELSE IF DepthExceeded(f.depth + 1)
              THEN calc' = [calc EXCEPT !.nodes = nodes, !.links = links,
                                       !.pc = "done",
                                       !.result = "GraphBuildFailed"]
              ELSE calc' = [calc EXCEPT !.nodes = nodes, !.links = links,
                     !.stack = Append(next,
                                  Frame(ingredient_label, hash_str, f.depth + 1))]
    /\ UNCHANGED <<config, state, tree_address, sem, req>>

\* process_ingredients: the loop is over, Ok(()) to the caller
ProcessIngredientsReturn ==
    /\ calc.pc = "walk" /\ calc.stack # <<>>
    /\ LET f == calc.stack[Len(calc.stack)] IN
       f.i > Len(calc.doc.manifests[f.label])
    /\ calc' = [calc EXCEPT !.stack = SubSeq(@, 1, Len(@) - 1)]
    /\ UNCHANGED <<config, state, tree_address, sem, req>>

\* build_provenance_graph after the walk: the size check
GraphSizeCheck ==
    /\ calc.pc = "walk" /\ calc.stack = <<>>
    /\ LET total == Len(calc.nodes) + Len(calc.links) IN
       calc' = [calc EXCEPT !.pc = "done",
                  !.result = IF SizeExceeded(total, calc.max_graph_size)
                             THEN "GraphSizeExceeded" ELSE "Ok"]
    /\ UNCHANGED <<config, state, tree_address, sem, req>>

NextGraph ==
    \/ BuildProvenanceGraph
    \/ ProcessIngredient
    \/ ProcessIngredientsReturn
    \/ GraphSizeCheck

SpecGraph == InitGraph /\ [][NextGraph]_vars

-----------------------------------------------------------------------------
(* Duplicate resolution: crates/core resolve_duplicate *)

TokenRecord(id, tsa_timestamp, tsa_pubkey_hash, solana_block_time, is_burned) ==
    [id |-> id, tsa_timestamp |-> tsa_timestamp,
     tsa_pubkey_hash |-> tsa_pubkey_hash,
     solana_block_time |-> solana_block_time, is_burned |-> is_burned]

Contains(seq, x) == \E i \in 1..Len(seq) : seq[i] = x

effective_creation_time(token, trusted_tsa_keys) ==
    IF token.tsa_timestamp # None
       /\ (IF trusted_tsa_keys = <<>> THEN TRUE
           ELSE IF token.tsa_pubkey_hash # None
           THEN Contains(trusted_tsa_keys, Unwrap(token.tsa_pubkey_hash))
           ELSE FALSE)
    THEN Unwrap(token.tsa_timestamp)
    ELSE token.solana_block_time

\* u64::cmp
Cmp(a, b) == IF a < b THEN "Less" ELSE IF a = b THEN "Equal" ELSE "Greater"

\* Ordering::then
Then(first, second) == IF first = "Equal" THEN second ELSE first

CompareTokens_notiebreak(a, b, trusted_tsa_keys) ==
    Cmp(effective_creation_time(a, trusted_tsa_keys),
        effective_creation_time(b, trusted_tsa_keys))

\* the closure given to min_by
CompareTokens(a, b, trusted_tsa_keys) ==
    Then(Cmp(effective_creation_time(a, trusted_tsa_keys),
             effective_creation_time(b, trusted_tsa_keys)),
         Cmp(a.solana_block_time, b.solana_block_time))

NotBurned_all(t) == TRUE

\* filter(|t| !t.is_burned)
NotBurned(t) == ~t.is_burned

RECURSIVE MinBy(_, _, _, _)
\* Iterator::min_by: a later element replaces the one kept only when the
\* kept one compares Greater; of equal minima the first is returned
MinBy(seq, i, kept, trusted_tsa_keys) ==
    IF i > Len(seq) THEN kept
    ELSE MinBy(seq, i + 1,
               IF CompareTokens(kept, seq[i], trusted_tsa_keys) = "Greater"
               THEN seq[i] ELSE kept,
               trusted_tsa_keys)

resolve_duplicate(tokens, trusted_tsa_keys) ==
    LET active == SelectSeq(tokens, NotBurned) IN
    IF active = <<>> THEN None
    ELSE Some(MinBy(active, 2, active[1], trusted_tsa_keys))

\* Records of one content id: with no timestamp, with a timestamp of one of
\* two authorities or of an unnamed one, registered in one of two blocks,
\* burned or not; up to MaxTokens of them at first, one more added later.
MaxTokens == 2

TsaInputs ==
    {<<None, None>>, <<Some(1), Some("tsa1")>>, <<Some(1), Some("tsa2")>>,
     <<Some(1), None>>, <<Some(3), Some("tsa1")>>}
BlockTimes == {2, 4}
TrustedInputs == {<<>>, <<"tsa1">>}

TokenInputs(id) ==
    {TokenRecord(id, tsa[1], tsa[2], block, burned) :
        tsa \in TsaInputs, block \in BlockTimes, burned \in BOOLEAN}

TokenLists ==
    {<<>>}
    \cup {<<a>> : a \in TokenInputs(1)}
    \cup {<<a, b>> : a \in TokenInputs(1), b \in TokenInputs(2)}

\* one list put in another order
InsertAt(seq, k, x) == SubSeq(seq, 1, k - 1) \o <<x>> \o SubSeq(seq, k, Len(seq))
Reorderings(seq) ==
    {[i \in 1..Len(seq) |-> seq[p[i]]] :
        p \in {q \in [1..Len(seq) -> 1..Len(seq)] :
                 \A i, j \in 1..Len(seq) : i # j => q[i] # q[j]}}

InitResolve ==
    /\ WorkerAtRest
    /\ \E tokens \in TokenLists, trusted \in TrustedInputs :
         calc = [tokens |-> tokens, trusted_tsa_keys |-> trusted,
                 op |-> "none", winner |-> None, before |-> None,
                 added |-> None]

\* resolve_duplicate(&tokens, &trusted_tsa_keys)
ResolveDuplicate ==
    /\ calc.op = "none"
    /\ calc' = [calc EXCEPT !.op = "resolve",
                  !.winner = resolve_duplicate(calc.tokens, calc.trusted_tsa_keys)]
    /\ UNCHANGED <<config, state, tree_address, sem, req>>

\* the same records given in another order, resolved again
ResolveReordered ==
    /\ calc.op # "none"
    /\ \E tokens \in Reorderings(calc.tokens) \ {calc.tokens} :
         calc' = [calc EXCEPT !.op = "reorder", !.tokens = tokens,
                    !.before = calc.winner, !.added = None,
                    !.winner = resolve_duplicate(tokens, calc.trusted_tsa_keys)]
    /\ UNCHANGED <<config, state, tree_address, sem, req>>

\* one more record given anywhere in the list, resolved again
ResolveWithAdded ==
    /\ calc.op # "none"
    /\ Len(calc.tokens) <= MaxTokens
    /\ \E t \in TokenInputs(Len(calc.tokens) + 1), k \in 1..(Len(calc.tokens) + 1) :
         LET tokens == InsertAt(calc.tokens, k, t) IN
         calc' = [calc EXCEPT !.op = "add", !.tokens = tokens,
                    !.before = calc.winner, !.added = Some(t),
                    !.winner = resolve_duplicate(tokens, calc.trusted_tsa_keys)]
    /\ UNCHANGED <<config, state, tree_address, sem, req>>

NextResolve == ResolveDuplicate \/ ResolveReordered \/ ResolveWithAdded

SpecResolve == InitResolve /\ [][NextResolve]_vars

-----------------------------------------------------------------------------
(* JUMBF parser: crates/core jumbf.rs *)

\* A byte string is a sequence of 0..255. A u64 is an integer v: v >= 0 is
\* itself, v < 0 stands for 2^64 + v (the top of the range, where a
\* subtraction that wrapped lands); `as i64` is then the identity.

HEADER_SIZE == 8
MAX_SIGNATURE_SIZE == 16777216

\* "jumb", "jumd", "cbor" as the four big-endian bytes of the u32
BOX_TYPE_JUMB == <<106, 117, 109, 98>>
BOX_TYPE_JUMD == <<106, 117, 109, 100>>
BOX_TYPE_CBOR == <<99, 98, 111, 114>>
CAI_SIGNATURE_UUID ==
    <<99, 50, 99, 115, 0, 17, 0, 16, 128, 0, 0, 170, 0, 56, 155, 113>>

\* a size of 2^31 or more that is not at the top of the u64 range: beyond
\* every position and limit here, and no sum with a position overflows
FarOffset == 1073741824

Lt64(a, b) == IF (a < 0) = (b < 0) THEN a < b ELSE b < 0
Sub64(a, b) == a - b
Sub64Overflows(a, b) == Lt64(a, b)
Add64(a, b) == a + b
Add64Overflows(a, b) ==
    IF a >= 0 /\ b >= 0 THEN FALSE
    ELSE IF a < 0 /\ b < 0 THEN TRUE
    ELSE a + b >= 0

\* u32::from_be_bytes, u64::from_be_bytes
FromBe32(b) ==
    IF b[1] >= 128 THEN FarOffset
    ELSE ((b[1] * 256 + b[2]) * 256 + b[3]) * 256 + b[4]
FromBe64(b) ==
    IF \A i \in 1..4 : b[i] = 0 THEN FromBe32(SubSeq(b, 5, 8))
    ELSE IF (\A i \in 1..4 : b[i] = 255) /\ b[5] >= 128
    THEN (((b[5] - 256) * 256 + b[6]) * 256 + b[7]) * 256 + b[8]
    ELSE FarOffset

\* Cursor<&[u8]>: the bytes left at a position
Remaining(data, pos) ==
    IF pos < 0 \/ pos >= Len(data) THEN 0 ELSE Len(data) - pos
Bytes(data, pos, n) == SubSeq(data, pos + 1, pos + n)

\* read_header: err is the Err of read_exact on the extended size
read_header(data, pos) ==
    LET n == Min(8, Remaining(data, pos)) IN
    IF n < 8
    THEN [err |-> FALSE, box_type |-> <<0, 0, 0, 0>>, size |-> 0,
          pos |-> pos + n]
    ELSE
      LET buf == Bytes(data, pos, 8)
          size == FromBe32(SubSeq(buf, 1, 4))
          box_type == SubSeq(buf, 5, 8) IN
      IF size = 1
      THEN IF Remaining(data, pos + 8) < 8
           THEN [err |-> TRUE, box_type |-> box_type, size |-> 0,
                 pos |-> pos + 8]
           ELSE [err |-> FALSE, box_type |-> box_type,
                 size |-> FromBe64(Bytes(data, pos + 8, 8)), pos |-> pos + 16]
      ELSE [err |-> FALSE, box_type |-> box_type, size |-> size,
            pos |-> pos + 8]

\* String::len after label.push(byte as char): two bytes of UTF-8 from 0x80
Utf8Len(byte) == IF byte >= 128 THEN 2 ELSE 1

\* if label.len() >= max_label_len { return Err(..) }
LabelTooLong(label_len, max_label_len) == ~Lt64(label_len, max_label_len)

RECURSIVE ReadLabel(_, _, _, _, _)
\* the label loop of read_desc_info
ReadLabel(data, pos, label, label_len, max_label_len) ==
    IF LabelTooLong(label_len, max_label_len) \/ Remaining(data, pos) < 1
    THEN [err |-> TRUE, label |-> label, label_len |-> label_len, pos |-> pos]
    ELSE LET byte == data[pos + 1] IN
         IF byte = 0
         THEN [err |-> FALSE, label |-> label, label_len |-> label_len,
               pos |-> pos + 1]
         ELSE ReadLabel(data, pos + 1, Append(label, byte),
                        label_len + Utf8Len(byte), max_label_len)

DescErr == [err |-> TRUE, uuid |-> <<>>, label |-> <<>>, pos |-> 0]

read_desc_info(data, pos, content_size) ==
    IF Lt64(content_size, 17) \/ Remaining(data, pos) < 17 THEN DescErr
    ELSE
      LET uuid == Bytes(data, pos, 16)
          toggles == data[pos + 17]
          l == IF (toggles \div 2) % 2 = 1
               THEN ReadLabel(data, pos + 17, <<>>, 0, Sub64(content_size, 17))
               ELSE [err |-> FALSE, label |-> <<>>, label_len |-> 0,
                     pos |-> pos + 17]
          read_so_far == 16 + 1 + (IF l.label = <<>> THEN 0 ELSE l.label_len + 1)
      IN
      IF l.err THEN DescErr
      ELSE IF Lt64(read_so_far, content_size)
      THEN \* reader.seek(SeekFrom::Current(skip as i64))
           LET skip == Sub64(content_size, read_so_far) IN
           IF l.pos + skip < 0 THEN DescErr
           ELSE [err |-> FALSE, uuid |-> uuid, label |-> l.label,
                 pos |-> l.pos + skip]
      ELSE [err |-> FALSE, uuid |-> uuid, label |-> l.label, pos |-> l.pos]

\* One turn of the scanning loops up to the comparison of the description:
\*   "fail"   an Err(ContentHashExtractionFailed) of a read
\*   "panic"  desc_header.size - HEADER_SIZE overflowed with overflow checks
\*   "break"  box_type == 0 || size == 0
\*   "desc"   a jumb superbox whose first box is a jumd, read into uuid/label
\*   "other"  any other box
ReadChild(data, pos, overflow_checks) ==
    LET header == read_header(data, pos)
        none == [kind |-> "fail", start |-> pos, size |-> 0, uuid |-> <<>>,
                 label |-> <<>>, pos |-> pos] IN
    IF header.err THEN none
    ELSE IF header.box_type = <<0, 0, 0, 0>> \/ header.size = 0
    THEN [none EXCEPT !.kind = "break"]
    ELSE IF header.box_type # BOX_TYPE_JUMB
    THEN [none EXCEPT !.kind = "other", !.size = header.size]
    ELSE
      LET desc_header == read_header(data, header.pos) IN
      IF desc_header.err THEN none
      ELSE IF desc_header.box_type # BOX_TYPE_JUMD
      THEN [none EXCEPT !.kind = "other", !.size = header.size]
      ELSE IF overflow_checks /\ Sub64Overflows(desc_header.size, HEADER_SIZE)
      THEN [none EXCEPT !.kind = "panic"]
      ELSE
        LET desc == read_desc_info(data, desc_header.pos,
                                   Sub64(desc_header.size, HEADER_SIZE)) IN
        IF desc.err THEN none
        ELSE [kind |-> "desc", start |-> pos, size |-> header.size,
              uuid |-> desc.uuid, label |-> desc.label, pos |-> desc.pos]

JumbfFail(c) == [c EXCEPT !.at = "done", !.result = "ContentHashExtractionFailed"]
JumbfPanic(c) == [c EXCEPT !.at = "done", !.result = "panic"]

\* reader.seek(SeekFrom::Start(start + size)), or into the matched box with
\* start + size as its end
SeekPast(c, child, into) ==
    IF c.overflow_checks /\ Add64Overflows(child.start, child.size)
    THEN JumbfPanic(c)
    ELSE IF into = "skip"
    THEN [c EXCEPT !.pos = Add64(child.start, child.size)]
    ELSE [c EXCEPT !.at = into, !.pos = child.pos,
                   !.end = Add64(child.start, child.size)]

\* extract_signature_from_jumbf up to the scan of the manifests
ExtractSignature ==
    /\ calc.at = "start"
    /\ LET data == calc.jumbf_data
           top_header == read_header(data, 0)
           desc_header == read_header(data, top_header.pos) IN
       calc' =
         IF top_header.err \/ top_header.box_type # BOX_TYPE_JUMB
         THEN JumbfFail(calc)
         ELSE IF desc_header.err \/ desc_header.box_type # BOX_TYPE_JUMD
         THEN JumbfFail(calc)
         ELSE IF calc.overflow_checks
                 /\ Sub64Overflows(desc_header.size, HEADER_SIZE)
         THEN JumbfPanic(calc)
         ELSE LET desc == read_desc_info(data, desc_header.pos,
                                         Sub64(desc_header.size, HEADER_SIZE)) IN
              IF desc.err THEN JumbfFail(calc)
              ELSE [calc EXCEPT !.at = "store", !.pos = desc.pos,
                                !.end = top_header.size]
    /\ UNCHANGED <<config, state, tree_address, sem, req>>

\* one turn of `while reader.position() < top_end`
ScanManifests ==
    /\ calc.at = "store"
    /\ LET child == ReadChild(calc.jumbf_data, calc.pos, calc.overflow_checks) IN
       calc' =
         IF ~Lt64(calc.pos, calc.end) THEN JumbfFail(calc)
         ELSE IF child.kind \in {"fail", "break"} THEN JumbfFail(calc)
         ELSE IF child.kind = "panic" THEN JumbfPanic(calc)
         ELSE IF child.kind = "desc" /\ child.label = calc.manifest_label
         THEN SeekPast(calc, child, "manifest")
         ELSE SeekPast(calc, child, "skip")
    /\ UNCHANGED <<config, state, tree_address, sem, req>>

\* find_signature_in_manifest: one turn of its loop
FindSignatureInManifest ==
    /\ calc.at = "manifest"
    /\ LET child == ReadChild(calc.jumbf_data, calc.pos, calc.overflow_checks) IN
       calc' =
         IF ~Lt64(calc.pos, calc.end) THEN JumbfFail(calc)
         ELSE IF child.kind \in {"fail", "break"} THEN JumbfFail(calc)
         ELSE IF child.kind = "panic" THEN JumbfPanic(calc)
         ELSE IF child.kind = "desc" /\ child.uuid = CAI_SIGNATURE_UUID
         THEN SeekPast(calc, child, "signature")
         ELSE SeekPast(calc, child, "skip")
    /\ UNCHANGED <<config, state, tree_address, sem, req>>

\* find_cbor_in_box: one turn of its loop
FindCborInBox ==
    /\ calc.at = "signature"
    /\ LET data == calc.jumbf_data
           header == read_header(data, calc.pos)
           data_len == Sub64(header.size, HEADER_SIZE) IN
       calc' =
         IF ~Lt64(calc.pos, calc.end) THEN JumbfFail(calc)
         ELSE IF header.err THEN JumbfFail(calc)
         ELSE IF header.box_type = <<0, 0, 0, 0>> \/ header.size = 0
         THEN JumbfFail(calc)
         ELSE IF header.box_type = BOX_TYPE_CBOR
         THEN IF calc.overflow_checks /\ Sub64Overflows(header.size, HEADER_SIZE)
              THEN JumbfPanic(calc)
              ELSE IF Lt64(MAX_SIGNATURE_SIZE, data_len) THEN JumbfFail(calc)
              ELSE IF Remaining(data, header.pos) < data_len THEN JumbfFail(calc)
              ELSE [calc EXCEPT !.at = "done", !.result = "Ok",
                                !.payload = Bytes(data, header.pos, data_len)]
         ELSE SeekPast(calc, [start |-> calc.pos, size |-> header.size], "skip")
    /\ UNCHANGED <<config, state, tree_address, sem, req>>

\* Byte strings: a well-formed store of one manifest with an assertion box
\* and a signature box; every prefix of it; and the store with one size
\* field, one toggle or one label changed.
U32(n) == <<0, (n \div 65536) % 256, (n \div 256) % 256, n % 256>>
BoxOf(size, box_type, content) == U32(size) \o box_type \o content
Box(box_type, content) == BoxOf(HEADER_SIZE + Len(content), box_type, content)

UuidOf(b3, b4) ==
    <<99, 50, b3, b4, 0, 17, 0, 16, 128, 0, 0, 170, 0, 56, 155, 113>>
Label(char) == <<char, 0>>

SigPayload == <<24, 42>>

\* knobs: declared sizes (-1 is the true size) of the store description, the
\* manifest box, the manifest description, the signature description and
\* the cbor box; the manifest's toggles and label; whether the manifest has
\* a signature box; an 8-byte extended size for the manifest box
WellFormed ==
    [store_desc |-> -1, manifest |-> -1, manifest_desc |-> -1,
     sig_desc |-> -1, cbor |-> -1, toggles |-> 3, label |-> Label(109),
     has_sig |-> TRUE, ext |-> <<>>]

Sized(declared, box_type, content) ==
    IF declared = -1 THEN Box(box_type, content)
    ELSE BoxOf(declared, box_type, content)

Store(k) ==
    LET signature ==
          Box(BOX_TYPE_JUMB,
              Sized(k.sig_desc, BOX_TYPE_JUMD,
                    UuidOf(99, 115) \o <<3>> \o Label(115))
              \o Sized(k.cbor, BOX_TYPE_CBOR, SigPayload))
        assertions == Box(<<102, 114, 101, 101>>, <<7>>)
        manifest_content ==
          Sized(k.manifest_desc, BOX_TYPE_JUMD,
                UuidOf(109, 97) \o <<k.toggles>> \o k.label)
          \o assertions
          \o (IF k.has_sig THEN signature ELSE <<>>)
        manifest ==
          IF k.ext # <<>>
          THEN U32(1) \o BOX_TYPE_JUMB \o k.ext \o manifest_content
          ELSE Sized(k.manifest, BOX_TYPE_JUMB, manifest_content)
    IN Box(BOX_TYPE_JUMB,
           Sized(k.store_desc, BOX_TYPE_JUMD,
                 UuidOf(112, 97) \o <<3>> \o Label(99))
           \o Box(<<102, 114, 101, 101>>, <<>>)
           \o manifest)

DeclaredSizes == {0, 4, 7, 8, 24, 33554432}

KnobInputs ==
    {WellFormed}
    \cup {[WellFormed EXCEPT ![f] = d] :
            f \in {"store_desc", "manifest", "manifest_desc", "sig_desc", "cbor"},
            d \in DeclaredSizes}
    \cup {[WellFormed EXCEPT !.toggles = 0, !.label = <<>>],
          [WellFormed EXCEPT !.label = <<109, 109>>],
          [WellFormed EXCEPT !.label = <<195, 0>>],
          [WellFormed EXCEPT !.has_sig = FALSE],
          [WellFormed EXCEPT !.manifest_desc = 30],
          [WellFormed EXCEPT !.ext = <<0, 0, 0, 0, 0, 0, 0, 97>>],
          [WellFormed EXCEPT !.ext = <<255, 255, 255, 255, 255, 255, 255, 255>>],
          [WellFormed EXCEPT !.ext = <<255, 255, 255, 255, 255, 255, 255, 248>>]}

Prefixes(data) == {SubSeq(data, 1, n) : n \in 0..Len(data)}

JumbfInputs == Prefixes(Store(WellFormed)) \cup {Store(k) : k \in KnobInputs}

LabelInputs == {<<109>>, <<120>>}

InitJumbf ==
    /\ WorkerAtRest
    /\ \E data \in JumbfInputs, label \in LabelInputs, checks \in BOOLEAN :
         calc = [jumbf_data |-> data, manifest_label |-> label,
                 overflow_checks |-> checks, at |-> "start", pos |-> 0,
                 end |-> 0, result |-> "none", payload |-> <<>>]

NextJumbf ==
    \/ ExtractSignature
    \/ ScanManifests
    \/ FindSignatureInManifest
    \/ FindCborInBox

SpecJumbf == InitJumbf /\ [][NextJumbf]_vars

----------------------------------------------------------------------------
(* Relay authentication: what verify_gateway_auth looks at in a wrapper *)

\* The endpoints that authenticate, and the HTTP method they are routed on
AuthEndpoints == {"/verify", "/sign"}
Methods == {"POST", "GET"}

\* the serialized sign target: the four fields, nothing of the endpoint
GatewayAuthSignTarget(method, path, body, resource_limits) ==
    <<method, path, body, resource_limits>>

\* an Ed25519 signature is made by one key over one message
Ed25519Sign(signing_key, message) == [key |-> signing_key, message |-> message]

ed25519_verify(verifying_key, message, signature) ==
    /\ signature.key = verifying_key
    /\ signature.message = message

\* The gateway_signature string: the Base64 of the 64 signature bytes, a
\* string that does not decode to 64 bytes, or no such field.
Base64(signature) == [encoding |-> "base64-64", signature |-> signature]
NoSignatureBytes == Ed25519Sign("none", <<>>)
BadEncodings ==
    {[encoding |-> e, signature |-> NoSignatureBytes] :
        e \in {"not-base64", "63-bytes"}}
NoSignatureField == [encoding |-> "absent", signature |-> NoSignatureBytes]

\* the relay's wrapper for a request it forwards
build_gateway_auth_wrapper(signing_key, method, path, body, resource_limits) ==
    [method |-> method, path |-> path, body |-> body,
     resource_limits |-> resource_limits,
     gateway_signature |->
        Base64(Ed25519Sign(signing_key,
                    GatewayAuthSignTarget(method, path, body, resource_limits)))]

\* The client's JSON: the fields of a VerifyRequest, of a SignRequest, or of
\* both (serde ignores the fields a struct does not name).
InnerBodies == {"verify_request", "sign_request", "both"}
ParsesAs(body, endpoint) ==
    IF endpoint = "/verify" THEN body \in {"verify_request", "both"}
    ELSE body \in {"sign_request", "both"}

WrapperLimits == {None, Some("limits")}

\* relay_to_tee signs POST, the path it forwards to, and its default limits
RelaySigned ==
    {build_gateway_auth_wrapper("gw", "POST", path, body, Some("limits")) :
        path \in AuthEndpoints, body \in InnerBodies}

\* What can arrive at an endpoint: a direct body, a body with a
\* gateway_signature field that is no wrapper, or a wrapper with any fields
\* and a signature string that is badly encoded, made by the relay for one of
\* its own wrappers, or made by another key over anything.
AnySigned ==
    {Base64(Ed25519Sign("other", GatewayAuthSignTarget(m, p, b, rl))) :
        m \in Methods, p \in AuthEndpoints, b \in InnerBodies,
        rl \in WrapperLimits}
GatewaySignatureInputs ==
    BadEncodings \cup {w.gateway_signature : w \in RelaySigned} \cup AnySigned
WrapperInputs ==
    [shape : {"wrapper"}, method : Methods, path : AuthEndpoints,
     body : InnerBodies, resource_limits : WrapperLimits,
     gateway_signature : GatewaySignatureInputs]
BodyInputs ==
    WrapperInputs
    \cup [shape : {"direct"}, method : {"none"}, path : {"none"},
          body : InnerBodies, resource_limits : {None},
          gateway_signature : {NoSignatureField}]
    \cup [shape : {"malformed"}, method : {"none"}, path : {"none"},
          body : {"none"}, resource_limits : {None},
          gateway_signature : BadEncodings]

\* verify_gateway_auth on the parsed JSON: the status of its Err, 200 for Ok
verify_gateway_auth_wrapper(pubkey, body) ==
    IF body.shape = "direct" THEN IF pubkey # None THEN 401 ELSE 200
    ELSE IF body.shape = "malformed" THEN 400
    ELSE IF pubkey = None THEN 200
    ELSE IF body.gateway_signature \in BadEncodings THEN 400
    ELSE IF ~ed25519_verify(Unwrap(pubkey),
                GatewayAuthSignTarget(body.method, body.path, body.body,
                                      body.resource_limits),
                body.gateway_signature.signature) THEN 403
    ELSE 200

InitAuth ==
    /\ proxy_addr = "proxy"
    /\ gateway_pubkey \in {None, Some("gw")}
    /\ wasm_loader = "FileLoader"
    /\ trusted_extension_ids = None
    /\ state = "Active"
    /\ tree_address = Some("tree")
    /\ sem = SemSeed
    /\ req = [r \in Req |-> IdleReq]
    /\ \E endpoint \in AuthEndpoints, body \in BodyInputs :
         calc = [endpoint |-> endpoint, body |-> body, status |-> 0,
                 result |-> "none"]

\* The head of a handler on an Active worker: verify_gateway_auth, every Err
\* of it mapped to Unauthorized, then the parse of the inner body.
HandlerHead(rec, pubkey) ==
    LET status == verify_gateway_auth_wrapper(pubkey, rec.body) IN
    [rec EXCEPT !.status = status,
                !.result = IF status # 200 THEN "Unauthorized"
                           ELSE IF ~ParsesAs(rec.body.body, rec.endpoint)
                           THEN "BadRequest"
                           ELSE "Parsed"]

\* handle_verify up to the parse of VerifyRequest
VerifyAuth ==
    /\ calc.result = "none"
    /\ calc.endpoint = "/verify"
    /\ calc' = HandlerHead(calc, gateway_pubkey)
    /\ UNCHANGED <<config, state, tree_address, sem, req>>

\* handle_sign up to the parse of SignRequest
SignAuth ==
    /\ calc.result = "none"
    /\ calc.endpoint = "/sign"
    /\ calc' = HandlerHead(calc, gateway_pubkey)
    /\ UNCHANGED <<config, state, tree_address, sem, req>>

NextAuth == VerifyAuth \/ SignAuth

SpecAuth == InitAuth /\ [][NextAuth]_vars

----------------------------------------------------------------------------
(* Worker state machine *)

\* C1: once the worker state is Active, no step of any operation, succeeding
\* or failing, in any interleaving, sets it back to Inactive.
C1_ActiveStaysActive == [][state = "Active" => state' = "Active"]_vars

\* the worker is Active, a later create-tree call was refused and a verify
\* call has run to its end
C1_Witness ==
    /\ state = "Active"
    /\ \E a, b \in Req :
         /\ req[a].kind = "create_tree" /\ req[a].result = "Conflict"
         /\ req[b].kind = "verify" /\ req[b].pc = "done" /\ req[b].fetched

\* C2: at most one create-tree call returns success, for every interleaving
\* of concurrent create-tree calls.
C2_OneShot ==
    Cardinality({r \in Req : /\ req[r].kind = "create_tree"
                             /\ req[r].pc = "done"
                             /\ req[r].result = "Ok"}) <= 1

\* C3: a verify or sign call that starts while the worker is Inactive is
\* answered in its first step with the worker-not-active error (503), has
\* started no fetch and produced no attestation or transaction.
C3_InactiveRejects ==
    [][\A r \in Req :
        (/\ req[r].pc = "idle"
         /\ req'[r].kind \in {"verify", "sign"}
         /\ state = "Inactive")
        => (/\ req'[r].pc = "done"
            /\ req'[r].result = "InvalidState"
            /\ StatusOf(req'[r].result) = 503
            /\ ~req'[r].fetched
            /\ FetchVia(req'[r]) = "none"
            /\ req'[r].results = <<>>
            /\ req'[r].output = <<>>)]_vars

\* both a verify and a sign call were refused while the worker is Inactive
C3_Witness ==
    /\ state = "Inactive"
    /\ \E a, b \in Req :
         /\ req[a].kind = "verify" /\ req[a].result = "InvalidState"
         /\ req[b].kind = "sign" /\ req[b].result = "InvalidState"

----------------------------------------------------------------------------
(* Admission layer *)

\* C4: when a request completes, with success or with any failure, every
\* semaphore unit acquired for it has been returned.
C4_UnitsReturned == \A r \in Req : req[r].pc = "done" => req[r].forgotten = 0

\* C5: no outbound fetch is made through an unguarded path.
C5_NoUnguardedFetch == \A r \in Req : FetchVia(req[r]) # "proxy_get"

\* a fetch of a body of exactly SemSeed units that got a 200 response
SizedFetch(rec) == rec.status_ok /\ rec.declared_size = Some(SemSeed)

Acquires(r) ==
    /\ req[r].pc \in {"fetch_acquire", "direct_acquire"}
    /\ req'[r] # req[r]
    /\ (IF req[r].pc = "fetch_acquire" THEN req[r].chunk_buf ELSE req[r].buffer) > 0

C7_NoWaiting ==
    [][\A r \in Req :
        (Acquires(r)
         /\ sem < (IF req[r].pc = "fetch_acquire"
                   THEN req[r].chunk_buf ELSE req[r].buffer))
        => (/\ req'[r].pc = "done"
            /\ req'[r].result = "ServiceUnavailable"
            /\ StatusOf(req'[r].result) = 503
            /\ sem' = sem)]_vars

\* a request was refused for lack of units
C7_Witness ==
    \E r \in Req :
        /\ req[r].pc = "done"
        /\ req[r].sec_error = "MemoryLimitExceeded"
        /\ req[r].result = "ServiceUnavailable"

\* the response header of r's fetch declares more than the ceiling
OverDeclared(rec) ==
    /\ rec.fetched
    /\ rec.declared_size # None
    /\ Unwrap(rec.declared_size) > rec.max_size_bytes

\* C8 as stated: a response that declares more than the ceiling is rejected
\* with PayloadTooLarge, no body byte read, no body allocated.
C8_OverDeclaredRejected ==
    \A r \in Req :
        OverDeclared(req[r])
        => (/\ req[r].pc = "done"
            /\ req[r].sec_error = "PayloadTooLarge"
            /\ req[r].body_read = 0
            /\ req[r].buffer_cap = 0)

\* C8 amended: a response with status 200 that declares more than the
\* ceiling is rejected with PayloadTooLarge (413), no body byte read, no body
\* allocated; a response with another status is rejected with the proxy
\* error (502) after at most one read into the 4096 byte discard buffer.
C8_OkOverDeclaredRejected ==
    \A r \in Req :
        OverDeclared(req[r])
        => /\ req[r].pc = "done"
           /\ req[r].buffer_cap = 0
           /\ req[r].status_ok
                => (/\ req[r].sec_error = "PayloadTooLarge"
                    /\ StatusOf(req[r].result) = 413
                    /\ req[r].body_read = 0)
           /\ ~req[r].status_ok
                => (/\ req[r].sec_error = "ProxyError"
                    /\ StatusOf(req[r].result) = 502
                    /\ req[r].body_read <= DISCARD_CAP)

\* a 200 response declared more than the ceiling and was rejected
C8_Witness ==
    \E r \in Req :
        /\ OverDeclared(req[r]) /\ req[r].status_ok
        /\ req[r].sec_error = "PayloadTooLarge"

\* C9: a fetch that got its first 64 KiB chunk and then stalled fails with
\* the Timeout kind (408).
C9_StallTimesOut ==
    \A r \in Req :
        (req[r].pc = "done" /\ req[r].stalled /\ req[r].body_read >= CHUNK_SIZE)
        => (req[r].result = "Timeout" /\ StatusOf(req[r].result) = 408)

\* C10: when the global timeout of a verify request fires, the request
\* returns Timeout, holds no admission unit and returns no processor result.
C10_GlobalTimeoutCleansUp ==
    \A r \in Req :
        (req[r].pc = "done" /\ req[r].gto)
        => (/\ req[r].result = "Timeout"
            /\ req[r].forgotten = 0
            /\ req[r].output = <<>>)

----------------------------------------------------------------------------
(* Dynamic global timeout *)

\* C11: for every resolved limit set and every content size, the dynamic
\* global timeout t computed for a verify request satisfies
\* base_processing_time <= t <= max_global_timeout.
C11_TimeoutBounded ==
    calc.timeout # None
        => LET limits == resolve_limits(calc.rl)
               t == Unwrap(calc.timeout)
           IN  /\ limits.base_processing_time_sec <= t
               /\ t <= limits.max_global_timeout_sec

----------------------------------------------------------------------------
(* Relay authentication *)

\* C12: when a relay public key is configured, a verify or sign request
\* whose relay signature is absent or does not verify under that key is
\* rejected before any fetch, decryption, processor run or signing: the
\* step that begins the request ends it with an error, with no fetch
\* under way, no unit taken and nothing produced.
C12_UnauthenticatedRejected ==
    [][\A r \in Req :
        (/\ req[r].pc = "idle"
         /\ req'[r].kind \in {"verify", "sign"}
         /\ gateway_pubkey # None
         /\ req'[r].auth \in {"direct", "badsig"})
        => (/\ req'[r].pc = "done"
            /\ StatusOf(req'[r].result) >= 400
            /\ FetchVia(req'[r]) = "none"
            /\ req'[r].forgotten = 0
            /\ req'[r].results = <<>>
            /\ req'[r].output = <<>>
            /\ sem' = sem)]_vars

C12_Witness ==
    \E r \in Req :
        /\ gateway_pubkey # None
        /\ state = "Active"
        /\ req[r].kind \in {"verify", "sign"}
        /\ req[r].auth = "badsig"
        /\ req[r].pc = "done"
        /\ req[r].result = "Unauthorized"

\* C13: create-ledger-state begins with relay authentication: when a relay
\* public key is configured, a create-ledger-state request without a valid
\* relay signature is rejected and does not move the worker to Active.
C13_CreateTreeAuthenticated ==
    [][\A r \in Req :
        (/\ req[r].kind = "create_tree"
         /\ req[r].pc # "done"
         /\ req'[r].pc = "done"
         /\ gateway_pubkey # None
         /\ req[r].auth # "valid")
        => (req'[r].result # "Ok" /\ state' = state)]_vars

\* C14: at the HTTP surface of verify and sign the relay-authentication
\* failures keep distinct statuses: no relay signature (key configured)
\* is 401, a relay signature that does not verify is 403, a malformed
\* wrapper is 400.
C14_AuthStatusesDistinct ==
    \A r \in Req :
        (/\ req[r].pc = "done"
         /\ req[r].kind \in {"verify", "sign"}
         /\ req[r].result # "InvalidState")
        => (/\ (gateway_pubkey # None /\ req[r].auth = "direct")
                    => StatusOf(req[r].result) = 401
            /\ (gateway_pubkey # None /\ req[r].auth = "badsig")
                    => StatusOf(req[r].result) = 403
            /\ req[r].auth = "malformed" => StatusOf(req[r].result) = 400)

\* C15: a create-ledger-state call made when the worker is already Active
\* fails with Conflict (HTTP 409) and leaves the worker state and the stored
\* tree key unchanged.
C15_ConflictWhenActive ==
    [][\A r \in Req :
        (/\ req[r].pc = "idle"
         /\ req'[r].kind = "create_tree"
         /\ state = "Active")
        => (/\ req'[r].pc = "done"
            /\ req'[r].result = "Conflict"
            /\ StatusOf(req'[r].result) = 409
            /\ req'[r].output = <<>>
            /\ state' = "Active"
            /\ tree_address' = tree_address)]_vars

C15_Witness ==
    \E r \in Req :
        /\ req[r].kind = "create_tree"
        /\ req[r].pc = "done"
        /\ req[r].result = "Conflict"
        /\ state = "Active"
        /\ tree_address = Some("tree")

----------------------------------------------------------------------------
(* Trusted analyzers, analyzer failures, verify on sign *)

\* the processor a verify request is about to run
CurrentPid(rec) == rec.processor_ids[rec.idx]

\* C16: when a trusted-analyzer set is configured, the analyzer loader is
\* never invoked for an analyzer id outside that set.
C16_LoaderOnlyForTrusted ==
    \A r \in Req :
        (trusted_extension_ids # None /\ req[r].loaded # "none")
            => req[r].loaded \in Unwrap(trusted_extension_ids)

C16_Witness ==
    \E r \in Req :
        /\ trusted_extension_ids # None
        /\ req[r].pc = "done"
        /\ req[r].result = "Forbidden"
        /\ req[r].kind = "verify"
        /\ req[r].loaded = "none"

\* C17: when a trusted-analyzer set is configured and the processor loop of
\* a verify request reaches an id outside it, the request fails with
\* Forbidden and returns no attestation for any listed processor, the
\* results already obtained (core-c2pa listed before it) included.
C17_UntrustedFailsWhole ==
    [][\A r \in Req :
        (/\ req[r].pc = "v_process"
         /\ req'[r] # req[r]
         /\ trusted_extension_ids # None
         /\ CurrentPid(req[r]) # CORE_PROCESSOR_ID
         /\ CurrentPid(req[r]) \notin Unwrap(trusted_extension_ids))
        => (/\ req'[r].pc = "done"
            /\ req'[r].result = "Forbidden"
            /\ StatusOf(req'[r].result) = 403
            /\ req'[r].results = <<>>
            /\ req'[r].output = <<>>)]_vars

C17_Witness ==
    \E r \in Req :
        /\ trusted_extension_ids = Some({"phash-v1"})
        /\ req[r].processor_ids = <<CORE_PROCESSOR_ID, "evil">>
        /\ req[r].pc = "done"
        /\ req[r].result = "Forbidden"
        /\ req[r].output = <<>>

\* C19: a runtime failure of one analyzer is a failure for that analyzer
\* only: the results of the other processors requested in the same verify
\* call (other analyzers, core-c2pa) are still returned.
C19_AnalyzerFailureIsolated ==
    [][\A r \in Req :
        (/\ req[r].pc \in {"v_process", "v_ext_load"}
         /\ CurrentPid(req[r]) # CORE_PROCESSOR_ID
         /\ req'[r].pc = "done"
         /\ req'[r].result = "ProcessingFailed")
        => \A i \in DOMAIN req[r].processor_ids :
              i # req[r].idx
                => \E j \in DOMAIN req'[r].output :
                      req'[r].output[j] = req[r].processor_ids[i]]_vars

\* C20: sign emits a partially signed mint transaction for an item only if
\* the fetched attestation's signature over {payload, attributes} verifies
\* under the worker's current signing key; an attestation signed under
\* another key (or altered after signing) fails the request with Forbidden
\* and the request yields no transaction.
C20_SignOnlyOwnAttestations ==
    [][\A r \in Req :
        (req[r].pc = "s_item" /\ req'[r] # req[r])
        => (/\ Len(req'[r].results) + Len(req'[r].output) > Len(req[r].results)
                => (/\ req'[r].att # None
                    /\ Unwrap(req'[r].att).key = SigningKey
                    /\ Unwrap(req'[r].att).intact)
            /\ (/\ req'[r].att # None
                /\ \/ Unwrap(req'[r].att).key # SigningKey
                   \/ ~Unwrap(req'[r].att).intact)
                => (/\ req'[r].pc = "done"
                    /\ req'[r].result = "Forbidden"
                    /\ StatusOf(req'[r].result) = 403
                    /\ req'[r].results = <<>>
                    /\ req'[r].output = <<>>))]_vars

C20_Witness ==
    \E r \in Req :
        /\ req[r].kind = "sign"
        /\ req[r].pc = "done"
        /\ req[r].result = "Forbidden"
        /\ req[r].att = Some([key |-> "tee_previous", intact |-> TRUE])
        /\ req[r].output = <<>>

(* Direct mode *)

\* C21: direct mode applies every defense of the proxy fetch: an
\* over-declared body is rejected before any of it is read, no more than one
\* chunk of the body is in memory before units are acquired for it, a stall
\* between chunks ends the fetch with the chunk-read deadline's error, and
\* no unit is held once the fetch is over.
C21_DirectAppliesDefenses ==
    proxy_addr = "direct" =>
      \A r \in Req :
        /\ (OverDeclared(req[r]) /\ req[r].status_ok) => req[r].body_read = 0
        /\ req[r].pc = "direct_acquire" => req[r].buffer <= CHUNK_SIZE
        /\ (req[r].pc = "done" /\ req[r].stalled)
              => req[r].sec_error = "ChunkReadTimeout"
        /\ req[r].pc \notin {"direct_body", "direct_acquire"}
              => req[r].forgotten = 0

-----------------------------------------------------------------------------
(* Provenance graph *)

\* build_provenance_graph returned Ok(ProvenanceGraph { nodes, links })
GraphReturned == calc.pc = "done" /\ calc.result = "Ok"

NodeIds == {calc.nodes[i].id : i \in 1..Len(calc.nodes)}
Edges == {<<calc.links[i].source, calc.links[i].target>> :
             i \in 1..Len(calc.links)}

\* C22: in every graph returned by build_graph, the source and the target
\* of every edge are ids of nodes of the graph.
C22_EdgeEndpointsAreNodes ==
    GraphReturned => \A e \in Edges : e[1] \in NodeIds /\ e[2] \in NodeIds

\* a returned graph with an ingredient below an ingredient
C22_Witness ==
    GraphReturned /\ Len(calc.links) >= 2 /\ Len(calc.nodes) >= 3

RECURSIVE Peel(_, _)
\* remove the nodes no edge leaves until none is left (acyclic) or every
\* remaining node has an outgoing edge (a cycle)
Peel(N, E) ==
    LET sinks == {n \in N : \A e \in E : e[1] # n} IN
    IF N = {} THEN TRUE
    ELSE IF sinks = {} THEN FALSE
    ELSE Peel(N \ sinks, {e \in E : e[2] \notin sinks})

\* C23: every graph returned by build_graph is acyclic: no directed cycle
\* of edges and no edge from a node to itself, whatever the ingredient
\* structure of the input.
C23_GraphAcyclic == GraphReturned => Peel(NodeIds, Edges)

\* C24: the walk over a chain of 32 nested ingredients below the root
\* succeeds (given room for its 65 nodes and edges); over a chain of 33 it
\* fails with GraphBuildFailed.
C24_DepthCap ==
    \A n \in 0..MaxChain :
        (calc.pc = "done" /\ calc.doc = Chain(n)) =>
            /\ (n <= 32 /\ calc.max_graph_size = 100)
                  => (calc.result = "Ok" /\ Len(calc.nodes) = n + 1
                      /\ Len(calc.links) = n)
            /\ n >= 33 => calc.result = "GraphBuildFailed"

\* the chain of depth exactly 32 was walked and its graph returned
C24_Witness ==
    GraphReturned /\ calc.doc = Chain(32) /\ Len(calc.links) = 32

\* C25: build_graph returns a graph only if |nodes| + |edges| <= max_size;
\* when the walk yields more than that, it fails with GraphSizeExceeded.
C25_SizeBounded ==
    LET total == Len(calc.nodes) + Len(calc.links) IN
    /\ GraphReturned => total <= calc.max_graph_size
    /\ (calc.pc = "done" /\ calc.nodes # <<>> /\ calc.stack = <<>>
        /\ total > calc.max_graph_size)
          => calc.result = "GraphSizeExceeded"

\* a walk that yielded a diamond of 4 nodes and 4 edges under a cap of 3
C25_Witness ==
    /\ calc.pc = "done" /\ calc.result = "GraphSizeExceeded"
    /\ calc.doc = Diamond /\ calc.max_graph_size = 3
    /\ Len(calc.nodes) = 4 /\ Len(calc.links) = 4

-----------------------------------------------------------------------------
(* Duplicate resolution *)

EffTime(t) == effective_creation_time(t, calc.trusted_tsa_keys)
Range(seq) == {seq[i] : i \in 1..Len(seq)}
ActiveTokens == {calc.tokens[i] : i \in {j \in 1..Len(calc.tokens) :
                                           ~calc.tokens[j].is_burned}}

\* C26: the resolver returns no-winner exactly when every record is burned;
\* otherwise the winner is a non-burned record of minimal effective creation
\* time and, among those of minimal effective time, of minimal block time.
C26_WinnerIsEarliest ==
    calc.op # "none" =>
        /\ (calc.winner = None) <=> (ActiveTokens = {})
        /\ calc.winner # None =>
             LET w == Unwrap(calc.winner) IN
             /\ w \in ActiveTokens
             /\ \A t \in ActiveTokens :
                  /\ EffTime(w) <= EffTime(t)
                  /\ EffTime(t) = EffTime(w)
                       => w.solana_block_time <= t.solana_block_time

\* the winner was picked by block time among records of equal effective time
C26_Witness ==
    /\ calc.op # "none" /\ calc.winner # None
    /\ \E t \in ActiveTokens :
         /\ EffTime(t) = EffTime(Unwrap(calc.winner))
         /\ t.solana_block_time > Unwrap(calc.winner).solana_block_time
    /\ \E t \in Range(calc.tokens) : t.is_burned

\* C27: adding a burned record never changes the winner; adding a record
\* whose effective creation time is strictly later than the current
\* winner's never changes the winner.
C27_Monotone ==
    (calc.op = "add" /\ calc.added # None) =>
        LET t == Unwrap(calc.added) IN
        /\ t.is_burned => calc.winner = calc.before
        /\ (calc.before # None /\ EffTime(t) > EffTime(Unwrap(calc.before)))
             => calc.winner = calc.before

\* a burned record earlier than the winner was added in front of it
C27_Witness ==
    /\ calc.op = "add" /\ calc.before # None
    /\ Unwrap(calc.added).is_burned
    /\ EffTime(Unwrap(calc.added)) < EffTime(Unwrap(calc.before))
    /\ calc.tokens[1] = Unwrap(calc.added)
    /\ calc.winner = calc.before

\* C28: the same records in a different order give the same winner, also
\* when two non-burned records have equal effective creation time and equal
\* block time.
C28_OrderIndependent ==
    calc.op = "reorder" => calc.winner = calc.before

-----------------------------------------------------------------------------
(* Resource limits *)

\* C30: no caller-supplied value makes an effective limit exceed its
\* built-in value: the effective limits of a request whose timeout was
\* computed are at most the built-in ones.
C30_LimitsClamped ==
    calc.timeout # None =>
        LET limits == resolve_limits(calc.rl) IN
        /\ limits.max_single_content_bytes <= DEFAULT_MAX_SINGLE_CONTENT_BYTES
        /\ limits.base_processing_time_sec <= DEFAULT_BASE_PROCESSING_TIME_SEC
        /\ limits.max_global_timeout_sec <= DEFAULT_MAX_GLOBAL_TIMEOUT_SEC

-----------------------------------------------------------------------------
(* JUMBF parser *)

\* C29: for every byte string and target label the parser either returns
\* the signature payload or fails with ContentHashExtractionFailed:
\* truncated headers, declared sizes smaller than the header, unterminated
\* labels, missing manifests and missing signature boxes give no other
\* outcome.
C29_ParserTotal ==
    calc.at = "done" => calc.result \in {"Ok", "ContentHashExtractionFailed"}

-----------------------------------------------------------------------------
(* Order of the handlers' steps *)

\* C31: in verify and sign the relay authentication comes before the state
\* check: with a relay key configured, a request without a valid relay
\* signature gets the authentication failure, also while the worker is
\* Inactive.
C31_AuthBeforeStateCheck ==
    \A r \in Req :
        (/\ req[r].pc = "done"
         /\ req[r].kind \in {"verify", "sign"}
         /\ gateway_pubkey # None
         /\ req[r].auth \in {"badsig", "malformed"})
            => req[r].result = "Unauthorized"

\* C32: within one verify request every analyzer runs after the provenance
\* (core-c2pa) step, whatever position core-c2pa has in processor_ids: no
\* analyzer result exists before the provenance result does.
C32_AnalyzersAfterProvenance ==
    \A r \in {q \in Req : req[q].kind = "verify"} :
        \A i \in 1..Len(req[r].results) :
            req[r].results[i] # CORE_PROCESSOR_ID
                => \E j \in 1..(i - 1) : req[r].results[j] = CORE_PROCESSOR_ID

\* C33: during a streamed fetch the units for a chunk are acquired before the
\* chunk is taken in: at every point of the read loop the body bytes the
\* fetch has read so far are covered by units it holds.
C33_UnitsBeforeChunk ==
    \A r \in Req :
        req[r].pc \in {"fetch_read", "fetch_acquire"}
            => req[r].body_read <= req[r].forgotten

\* C34: the units acquired for a request's fetched content stay reserved
\* until its processing completes: while a verify request is decrypting or
\* running processors on a fetched body, it holds units for that body.
C34_UnitsHeldWhileProcessing ==
    \A r \in Req :
        (/\ req[r].kind = "verify"
         /\ req[r].pc \in {"v_decrypt", "v_process", "v_ext_load", "v_seal"}
         /\ req[r].buffer > 0)
            => req[r].forgotten >= req[r].buffer

(* Relay authentication: what the signature binds *)

C36_ActiveHasTreeKey ==
    /\ state = "Active" => tree_address # None
    /\ \A r \in Req : req[r].pc = "s_tree" => tree_address # None

\* a sign call has passed the Active check and read the tree key while
\* another create-tree call is still under way
C36_Witness ==
    \E a, b \in Req :
        /\ req[a].kind = "sign" /\ req[a].pc = "fetch_connect"
        /\ req[b].kind = "create_tree" /\ req[b].pc \in {"ct_store", "ct_activate"}

(* Semaphore level *)

\* C37: after any sequence of concurrent fetches the units available in the
\* semaphore never exceed the seed: a fetch never returns more units than
\* it acquired.
C37_NeverAboveSeed == sem <= SemSeed

\* two fetches have run concurrently, one has returned its units and ended,
\* the other still holds some
C37_Witness ==
    \E a, b \in Req :
        /\ req[a].pc = "done" /\ req[a].fetched /\ req[a].result = "Ok"
        /\ req[b].forgotten > 0 /\ req[b].pc \in {"fetch_read", "fetch_acquire"}
        /\ proxy_addr = "proxy"

(* Failing create-tree calls *)

\* C38: a create-tree call that fails (unparsable body, undecodable
\* blockhash, key unavailable, signature application or serialization
\* error) leaves the worker state and the stored tree key as they were:
\* Inactive and absent if no other call has succeeded, so that a later call
\* can still succeed.
C38_FailureLeavesStateAndKey ==
    [][\A r \in Req :
          (/\ req[r].pc = "ct_build"
           /\ req'[r].pc = "done"
           /\ req'[r].result \in {"BadRequest", "Internal"})
              => /\ state' = state
                 /\ tree_address' = tree_address]_vars

\* one create-tree call has failed and another one has succeeded
C38_Witness ==
    \E a, b \in Req :
        /\ req[a].kind = "create_tree" /\ req[a].pc = "done"
        /\ req[a].result \in {"BadRequest", "Internal"}
        /\ req[b].kind = "create_tree" /\ req[b].pc = "done"
        /\ req[b].result = "Ok"
        /\ state = "Active"

(* Termination of the box scans *)

\* C39: the JUMBF parser terminates on every finite input: every turn of
\* one of its box-scanning loops that neither returns nor breaks moves the
\* read cursor strictly forward, whatever size the box declares (sizes
\* below the header length and extended 64-bit sizes included).
C39_CursorMovesForward ==
    [][(/\ calc.at \in {"store", "manifest", "signature"}
        /\ calc'.at = calc.at)
          => Lt64(calc.pos, calc'.pos)]_vars

(* Termination of the ingredient walk *)

\* the references the walk follows: from a manifest to the embedded
\* manifest of one of its ingredients, if that has a signature and is in
\* the store
WalkEdges(doc) ==
    {e \in (DOMAIN doc.manifests) \X (DOMAIN doc.manifests) :
        /\ \E k \in 1..Len(doc.manifests[e[1]]) :
              doc.manifests[e[1]][k].active_manifest = Some(e[2])
        /\ e[2] \in DOMAIN doc.signature
        /\ doc.signature[e[2]] # None}

RECURSIVE Reach(_, _)
Reach(S, E) ==
    LET next == S \cup {e[2] : e \in {x \in E : x[1] \in S}} IN
    IF next = S THEN S ELSE Reach(next, E)

\* the manifests reachable from the active one include a cycle of references
WalksCycle(doc) ==
    /\ doc.active_label # None
    /\ Unwrap(doc.active_label) \in DOMAIN doc.manifests
    /\ LET seen == Reach({Unwrap(doc.active_label)}, WalkEdges(doc)) IN
       ~Peel(seen, {e \in WalkEdges(doc) : e[1] \in seen})

\* The calls in progress as a word: the next ingredient of each call, then
\* a letter above every index for the levels not entered.  The words are
\* ordered letter by letter from the outermost call.
WalkWord(stack) ==
    [d \in 1..(MAX_INGREDIENT_DEPTH + 2) |->
        IF d <= Len(stack) THEN stack[d].i ELSE MaxIngredients + 2]
WordBefore(s, t) ==
    \E j \in DOMAIN s : s[j] < t[j] /\ \A k \in 1..(j - 1) : s[k] = t[k]

====
